---- MODULE Spec2Model ----
(***************************************************************************)
(* wgpu-text, src/brush.rs: TextBrush (queue / draw_queued / resize) and   *)
(* BrushBuilder (using_font* / build).                                     *)
(*                                                                         *)
(* TextBrush owns `inner` (the glyph_brush GlyphBrush: atlas dimensions,   *)
(* pending sections, last drawn text state) and `pipeline` (the GPU cache  *)
(* texture, the vertex buffer, the surface dimensions).  draw_queued is    *)
(* modelled statement by statement with a program counter, because its     *)
(* loop has no iteration cap.                                              *)
(***************************************************************************)
EXTENDS Integers, Sequences, FiniteSets, TLC

\* ------------------------------------------------------------------ bounds
\* Texture widths and heights range over 1..MaxDim.
MaxDim == 3
\* device.limits().max_texture_dimension_2d of the one device in use.
max_texture_dimension_2d == 2
\* Surface widths and heights range over 1..MaxSurface.
MaxSurface == 2
\* Longest pending-sections list.
MaxPending == 2
\* Per-call event counters saturate at MaxCount.
MaxCount == 3

Dim == 1..MaxDim
Dims == Dim \X Dim
Surfaces == (1..MaxSurface) \X (1..MaxSurface)
Sections == {"section"}
FontData == {"font", "malformed"}

Bump(n) == IF n < MaxCount THEN n + 1 ELSE MaxCount

\* ------------------------------------------------------------------- state
VARIABLES
    builder,        \* value returned by the last BrushBuilder constructor
    built,          \* a TextBrush exists
    inner,          \* TextBrush.inner  (glyph_brush::GlyphBrush)
    pipeline,       \* TextBrush.pipeline
    pc,             \* position inside draw_queued ("idle" between calls)
    brush_action,   \* local of draw_queued: result of the last process_queued
    width_height,   \* local of draw_queued: (width, height) of the resize
    passes,         \* process_queued calls in the current/last draw_queued
    resizes,        \* completed atlas resizes in the current/last draw_queued
    uploads,        \* pipeline.update calls in the current/last draw_queued
    ret,            \* what the draw_queued that just returned gave back
    prev_text,      \* inner.last_draw when the current/last draw_queued began
    consecutive,    \* the current/last draw_queued directly followed another
    log_enabled,    \* log_enabled!(Warn) while the current/last call runs
    warnings,       \* warnings logged by the current/last draw_queued
    last_op         \* the last public operation called, with its argument

vars == <<builder, built, inner, pipeline, pc, brush_action, width_height,
          passes, resizes, uploads, ret, prev_text, consecutive, log_enabled,
          warnings, last_op>>

locals == <<brush_action, width_height>>
counters == <<passes, resizes, uploads>>
call == <<brush_action, width_height, passes, resizes, uploads, ret,
          prev_text, consecutive, log_enabled, warnings>>

NoDims == <<0, 0>>
NoAction == [kind |-> "None", vertices |-> <<>>, suggested |-> NoDims]
NoText == <<"default">>
NoInner == [texture_dimensions |-> NoDims, section_buffer |-> <<>>,
            last_draw |-> NoText]
NoPipeline == [texture |-> NoDims, surface |-> NoDims, vertices |-> <<>>]

\* The record of the draw_queued call that just returned is dropped when the
\* caller makes its next call.
ForgetCall ==
    /\ brush_action' = NoAction
    /\ width_height' = NoDims
    /\ passes' = 0 /\ resizes' = 0 /\ uploads' = 0
    /\ ret' = "None"
    /\ prev_text' = NoText
    /\ consecutive' = FALSE
    /\ log_enabled' = FALSE
    /\ warnings' = 0

\* ------------------------------------------------- GlyphBrush (glyph cache)
\* GlyphBrushBuilder::build: an empty cache of the configured dimensions.
GlyphBrush_build(cache_size) ==
    [texture_dimensions |-> cache_size,
     section_buffer |-> <<>>,
     last_draw |-> NoText]

\* GlyphBrush::texture_dimensions
texture_dimensions(g) == g.texture_dimensions

\* GlyphBrush::queue: append the section to the pending list.
GlyphBrush_queue(g, section) ==
    [g EXCEPT !.section_buffer = Append(@, section)]

\* The text state a processing pass compares with the last drawn one.
TextState(g) == <<"text">> \o g.section_buffer

\* Vertex::to_vertex over the glyphs of the queued sections.
to_vertex(section) == [glyph |-> section]
RECURSIVE VerticesOf(_)
VerticesOf(sections) ==
    IF sections = <<>>
    THEN <<>>
    ELSE <<to_vertex(Head(sections))>> \o VerticesOf(Tail(sections))
Vertices(g) == VerticesOf(g.section_buffer)

\* GlyphBrush::process_queued, successful pass: Draw(vertices) when the text
\* state differs from the last drawn one, ReDraw otherwise.
ProcessOkAction(g) ==
    IF TextState(g) = g.last_draw
    THEN [kind |-> "ReDraw", vertices |-> <<>>, suggested |-> NoDims]
    ELSE [kind |-> "Draw", vertices |-> Vertices(g), suggested |-> NoDims]

\* ... and the pending list is cleared by the successful pass.
ProcessOkState(g) ==
    [g EXCEPT !.last_draw = TextState(g), !.section_buffer = <<>>]

\* GlyphBrush::process_queued, failed pass: Err(TextureTooSmall { suggested }).
TextureTooSmall(suggested) ==
    [kind |-> "TextureTooSmall", vertices |-> <<>>, suggested |-> suggested]

\* GlyphBrush::resize_texture: new atlas dimensions, last draw forgotten.
GlyphBrush_resize_texture(g, width, height) ==
    [g EXCEPT !.texture_dimensions = <<width, height>>,
              !.last_draw = NoText]

\* ------------------------------------------------------------------ Pipeline
Pipeline_new(tex_dimensions, surface) ==
    [texture |-> tex_dimensions, surface |-> surface, vertices |-> <<>>]

Pipeline_resize_texture(p, width, height) ==
    [p EXCEPT !.texture = <<width, height>>]

Pipeline_update(p, vertices) == [p EXCEPT !.vertices = vertices]

Pipeline_resize(p, width, height) == [p EXCEPT !.surface = <<width, height>>]

\* -------------------------------------------------------------- BrushBuilder
\* FontRef::try_from_slice
try_from_slice(data) == IF data = "font" THEN "Ok" ELSE "InvalidFont"

\* BrushBuilder::using_fonts(fonts): always a builder.
using_fonts_value == "Ok"

using_fonts ==
    /\ pc = "idle"
    /\ builder' = using_fonts_value
    /\ last_op' = <<"using_fonts", "-">>
    /\ ForgetCall
    /\ UNCHANGED <<built, inner, pipeline, pc>>

using_font ==
    /\ pc = "idle"
    /\ builder' = using_fonts_value
    /\ last_op' = <<"using_font", "-">>
    /\ ForgetCall
    /\ UNCHANGED <<built, inner, pipeline, pc>>

\* Faulty variant: the `?` is dropped, a builder is returned whatever the bytes are.
FromBytes_unchecked(data) == using_fonts_value

\* let font = FontRef::try_from_slice(data)?; Ok(BrushBuilder::using_fonts(..))
FromBytes(data) ==
    IF try_from_slice(data) = "Ok" THEN using_fonts_value ELSE "InvalidFont"

using_font_bytes ==
    /\ pc = "idle"
    /\ \E data \in FontData :
          /\ builder' = FromBytes(data)
          /\ last_op' = <<"using_font_bytes", data>>
    /\ ForgetCall
    /\ UNCHANGED <<built, inner, pipeline, pc>>

using_font_bytes_vec ==
    /\ pc = "idle"
    /\ \E data \in FontData :
          /\ builder' = FromBytes(data)
          /\ last_op' = <<"using_font_bytes_vec", data>>
    /\ ForgetCall
    /\ UNCHANGED <<built, inner, pipeline, pc>>

\* Faulty variant: Pipeline::new is given the surface dimensions as the cache
\* texture dimensions and the other way round.
build_swapped ==
    /\ pc = "idle"
    /\ builder = "Ok"
    /\ \E cache_size \in Dims, surface \in Surfaces :
          /\ inner' = GlyphBrush_build(cache_size)
          /\ pipeline' = Pipeline_new(surface, texture_dimensions(inner'))
          /\ last_op' = <<"build", surface>>
    /\ built' = TRUE
    /\ builder' = "None"
    /\ ForgetCall
    /\ UNCHANGED pc

\* build(self, device, render_format, width, height): the builder, configured
\* through the delegated builder functions with some initial cache size, is
\* consumed.
build ==
    /\ pc = "idle"
    /\ builder = "Ok"
    /\ \E cache_size \in Dims, surface \in Surfaces :
          /\ inner' = GlyphBrush_build(cache_size)
          /\ pipeline' = Pipeline_new(texture_dimensions(inner'), surface)
          /\ last_op' = <<"build", surface>>
    /\ built' = TRUE
    /\ builder' = "None"
    /\ ForgetCall
    /\ UNCHANGED pc

\* ----------------------------------------------------------------- TextBrush
\* Faulty variant: queue processes and uploads the section at once.
queue_eager ==
    /\ pc = "idle"
    /\ built
    /\ Len(inner.section_buffer) < MaxPending
    /\ \E section \in Sections :
          /\ inner' = GlyphBrush_queue(inner, section)
          /\ pipeline' = Pipeline_update(pipeline, Vertices(inner'))
    /\ last_op' = <<"queue", "-">>
    /\ ForgetCall
    /\ UNCHANGED <<builder, built, pc>>

queue ==
    /\ pc = "idle"
    /\ built
    /\ Len(inner.section_buffer) < MaxPending
    /\ \E section \in Sections :
          inner' = GlyphBrush_queue(inner, section)
    /\ last_op' = <<"queue", "-">>
    /\ ForgetCall
    /\ UNCHANGED <<builder, built, pipeline, pc>>

\* Faulty variant: the surface resize is conflated with the cache-texture resize.
resize_conflated ==
    /\ pc = "idle"
    /\ built
    /\ \E s \in Surfaces :
          /\ pipeline' = Pipeline_resize_texture(
                             Pipeline_resize(pipeline, s[1], s[2]), s[1], s[2])
          /\ last_op' = <<"resize", s>>
    /\ ForgetCall
    /\ UNCHANGED <<builder, built, inner, pc>>

resize ==
    /\ pc = "idle"
    /\ built
    /\ \E s \in Surfaces :
          /\ pipeline' = Pipeline_resize(pipeline, s[1], s[2])
          /\ last_op' = <<"resize", s>>
    /\ ForgetCall
    /\ UNCHANGED <<builder, built, inner, pc>>

\* draw_queued is entered: `let mut brush_action;`
draw_queued ==
    /\ pc = "idle"
    /\ built
    /\ pc' = "process_queued"
    /\ brush_action' = NoAction
    /\ width_height' = NoDims
    /\ passes' = 0 /\ resizes' = 0 /\ uploads' = 0
    /\ ret' = "None"
    /\ prev_text' = inner.last_draw
    /\ consecutive' = (last_op[1] = "draw_queued")
    /\ log_enabled' \in BOOLEAN
    /\ warnings' = 0
    /\ last_op' = <<"draw_queued", "-">>
    /\ UNCHANGED <<builder, built, inner, pipeline>>

\* Faulty variant: clamps only when both suggested dimensions exceed the maximum.
ResizeTarget_both_exceed(suggested, dimensions, max_image_dimension) ==
    IF /\ (suggested[1] > max_image_dimension
            /\ suggested[2] > max_image_dimension)
       /\ (dimensions[1] < max_image_dimension
            \/ dimensions[2] < max_image_dimension)
    THEN <<max_image_dimension, max_image_dimension>>
    ELSE suggested

\* Faulty variant: clamps already when a suggested dimension reaches the maximum.
ResizeTarget_inclusive(suggested, dimensions, max_image_dimension) ==
    IF /\ (suggested[1] >= max_image_dimension
            \/ suggested[2] >= max_image_dimension)
       /\ (dimensions[1] < max_image_dimension
            \/ dimensions[2] < max_image_dimension)
    THEN <<max_image_dimension, max_image_dimension>>
    ELSE suggested

\* The target of the resize after TextureTooSmall { suggested }.
ResizeTarget(suggested, dimensions, max_image_dimension) ==
    IF /\ (suggested[1] > max_image_dimension
            \/ suggested[2] > max_image_dimension)
       /\ (dimensions[1] < max_image_dimension
            \/ dimensions[2] < max_image_dimension)
    THEN <<max_image_dimension, max_image_dimension>>
    ELSE suggested

\* process_queued returns Ok(_): break.
process_queued_ok ==
    /\ pc = "process_queued"
    /\ brush_action' = ProcessOkAction(inner)
    /\ inner' = ProcessOkState(inner)
    /\ passes' = Bump(passes)
    /\ pc' = "unwrap"
    /\ UNCHANGED <<builder, built, pipeline, width_height, resizes, uploads,
                   ret, prev_text, consecutive, log_enabled, warnings, last_op>>

\* if log::log_enabled!(log::Level::Warn) { log::warn!(..) }
Warned(n) == IF log_enabled THEN Bump(n) ELSE n

\* Faulty variant: the vertices laid out so far are uploaded on a failed pass.
TooSmallArm_upload(suggested) ==
    /\ pc = "process_queued"
    /\ brush_action' = TextureTooSmall(suggested)
    /\ warnings' = Warned(warnings)
    /\ width_height' = ResizeTarget(suggested, texture_dimensions(inner),
                                    max_texture_dimension_2d)
    /\ pipeline' = Pipeline_update(pipeline, Vertices(inner))
    /\ uploads' = Bump(uploads)
    /\ passes' = Bump(passes)
    /\ pc' = "pipeline_resize_texture"
    /\ UNCHANGED <<builder, built, inner, resizes, ret, prev_text,
                   consecutive, log_enabled, last_op>>

\* Faulty variant: the TextureTooSmall arm leaves the loop without resizing.
TooSmallArm_break(suggested) ==
    /\ pc = "process_queued"
    /\ brush_action' = TextureTooSmall(suggested)
    /\ warnings' = Warned(warnings)
    /\ passes' = Bump(passes)
    /\ pc' = "unwrap"
    /\ UNCHANGED <<builder, built, inner, pipeline, width_height, resizes,
                   uploads, ret, prev_text, consecutive, log_enabled, last_op>>

\* Faulty variant: the warning is logged for the first resize of a call only.
TooSmallArm_warn_once(suggested) ==
    /\ pc = "process_queued"
    /\ brush_action' = TextureTooSmall(suggested)
    /\ warnings' = IF warnings = 0 THEN Warned(warnings) ELSE warnings
    /\ width_height' = ResizeTarget(suggested, texture_dimensions(inner),
                                    max_texture_dimension_2d)
    /\ passes' = Bump(passes)
    /\ pc' = "pipeline_resize_texture"
    /\ UNCHANGED <<builder, built, inner, pipeline, resizes, uploads, ret,
                   prev_text, consecutive, log_enabled, last_op>>

\* process_queued returns Err(TextureTooSmall { suggested }): the warning is
\* logged if warnings are enabled, then the target (width, height) is
\* computed.
TooSmallArm(suggested) ==
    /\ pc = "process_queued"
    /\ brush_action' = TextureTooSmall(suggested)
    /\ warnings' = Warned(warnings)
    /\ width_height' = ResizeTarget(suggested, texture_dimensions(inner),
                                    max_texture_dimension_2d)
    /\ passes' = Bump(passes)
    /\ pc' = "pipeline_resize_texture"
    /\ UNCHANGED <<builder, built, inner, pipeline, resizes, uploads, ret,
                   prev_text, consecutive, log_enabled, last_op>>

\* The glyph cache may answer any pass with any suggestion ...
process_queued_too_small ==
    \E suggested \in Dims : TooSmallArm(suggested)

\* ... or, as a cache that asks for room would, only while sections are
\* pending and never with a suggestion below its present dimensions.
process_queued_too_small_grow ==
    /\ inner.section_buffer # <<>>
    /\ \E suggested \in Dims :
          /\ texture_dimensions(inner)[1] <= suggested[1]
          /\ texture_dimensions(inner)[2] <= suggested[2]
          /\ TooSmallArm(suggested)

\* Faulty variant: the GPU texture is resized to the suggestion, not to
\* (width, height).
pipeline_resize_texture_suggested ==
    /\ pc = "pipeline_resize_texture"
    /\ pipeline' = Pipeline_resize_texture(pipeline, brush_action.suggested[1],
                                           brush_action.suggested[2])
    /\ pc' = "inner_resize_texture"
    /\ UNCHANGED <<builder, built, inner, call, last_op>>

\* self.pipeline.resize_texture(device, width, height);
pipeline_resize_texture ==
    /\ pc = "pipeline_resize_texture"
    /\ pipeline' = Pipeline_resize_texture(pipeline, width_height[1],
                                           width_height[2])
    /\ pc' = "inner_resize_texture"
    /\ UNCHANGED <<builder, built, inner, call, last_op>>

\* Faulty variant: width and height are passed in the wrong order.
inner_resize_texture_swapped ==
    /\ pc = "inner_resize_texture"
    /\ inner' = GlyphBrush_resize_texture(inner, width_height[2],
                                          width_height[1])
    /\ resizes' = Bump(resizes)
    /\ pc' = "process_queued"
    /\ UNCHANGED <<builder, built, pipeline, locals, passes, uploads, ret,
                   prev_text, consecutive, log_enabled, warnings, last_op>>

\* Faulty variant: the atlas is resized to the suggestion, not to (width, height).
inner_resize_texture_suggested ==
    /\ pc = "inner_resize_texture"
    /\ inner' = GlyphBrush_resize_texture(inner, brush_action.suggested[1],
                                          brush_action.suggested[2])
    /\ resizes' = Bump(resizes)
    /\ pc' = "process_queued"
    /\ UNCHANGED <<builder, built, pipeline, locals, passes, uploads, ret,
                   prev_text, consecutive, log_enabled, warnings, last_op>>

\* Faulty variant: the glyph brush is rebuilt at the new size, which drops
\* the pending sections.
inner_resize_texture_rebuild ==
    /\ pc = "inner_resize_texture"
    /\ inner' = GlyphBrush_build(width_height)
    /\ resizes' = Bump(resizes)
    /\ pc' = "process_queued"
    /\ UNCHANGED <<builder, built, pipeline, locals, passes, uploads, ret,
                   prev_text, consecutive, log_enabled, warnings, last_op>>

\* self.inner.resize_texture(width, height); then the loop repeats.
inner_resize_texture ==
    /\ pc = "inner_resize_texture"
    /\ inner' = GlyphBrush_resize_texture(inner, width_height[1],
                                          width_height[2])
    /\ resizes' = Bump(resizes)
    /\ pc' = "process_queued"
    /\ UNCHANGED <<builder, built, pipeline, locals, passes, uploads, ret,
                   prev_text, consecutive, log_enabled, warnings, last_op>>

\* Faulty variant: the Draw arm forgets the upload.
unwrap_match_never_update ==
    /\ pc = "unwrap"
    /\ IF brush_action.kind = "TextureTooSmall"
       THEN pc' = "panicked"
       ELSE pc' = "draw"
    /\ UNCHANGED <<builder, built, inner, pipeline, locals, counters, ret,
                   prev_text, consecutive, log_enabled, warnings, last_op>>

\* Faulty variant: the ReDraw arm uploads (an empty batch) too.
unwrap_match_always_update ==
    /\ pc = "unwrap"
    /\ IF brush_action.kind = "TextureTooSmall"
       THEN /\ pc' = "panicked"
            /\ UNCHANGED <<pipeline, uploads>>
       ELSE /\ pc' = "draw"
            /\ pipeline' = Pipeline_update(pipeline, brush_action.vertices)
            /\ uploads' = Bump(uploads)
    /\ UNCHANGED <<builder, built, inner, locals, passes, resizes, ret,
                   prev_text, consecutive, log_enabled, warnings, last_op>>

\* match brush_action.unwrap() { Draw(vertices) => update, ReDraw => () }
unwrap_match ==
    /\ pc = "unwrap"
    /\ IF brush_action.kind = "TextureTooSmall"
       THEN /\ pc' = "panicked"
            /\ UNCHANGED <<pipeline, uploads>>
       ELSE /\ pc' = "draw"
            /\ IF brush_action.kind = "Draw"
               THEN /\ pipeline' = Pipeline_update(pipeline,
                                                   brush_action.vertices)
                    /\ uploads' = Bump(uploads)
               ELSE UNCHANGED <<pipeline, uploads>>
    /\ UNCHANGED <<builder, built, inner, locals, passes, resizes, ret,
                   prev_text, consecutive, log_enabled, warnings, last_op>>

\* self.pipeline.draw(device, view): the command buffer is returned and the
\* locals go out of scope.
pipeline_draw ==
    /\ pc = "draw"
    /\ ret' = "CommandBuffer"
    /\ pc' = "idle"
    /\ brush_action' = NoAction
    /\ width_height' = NoDims
    /\ UNCHANGED <<builder, built, inner, pipeline, counters, prev_text,
                   consecutive, log_enabled, warnings, last_op>>

\* ------------------------------------------------------------ specification
Init ==
    /\ builder = "None"
    /\ built = FALSE
    /\ inner = NoInner
    /\ pipeline = NoPipeline
    /\ pc = "idle"
    /\ brush_action = NoAction
    /\ width_height = NoDims
    /\ passes = 0 /\ resizes = 0 /\ uploads = 0
    /\ ret = "None"
    /\ prev_text = NoText
    /\ consecutive = FALSE
    /\ log_enabled = FALSE
    /\ warnings = 0
    /\ last_op = <<"none", "-">>

CallerStep ==
    \/ using_font
    \/ using_fonts
    \/ using_font_bytes
    \/ using_font_bytes_vec
    \/ build
    \/ queue
    \/ resize
    \/ draw_queued

AfterPass ==
    \/ process_queued_ok
    \/ pipeline_resize_texture
    \/ inner_resize_texture
    \/ unwrap_match
    \/ pipeline_draw

Next ==
    \/ CallerStep
    \/ process_queued_too_small
    \/ AfterPass

Spec == Init /\ [][Next]_vars

\* The same program with the glyph cache that only asks for room.
GrowNext ==
    \/ CallerStep
    \/ process_queued_too_small_grow
    \/ AfterPass

GrowSpec == Init /\ [][GrowNext]_vars

\* draw_queued runs to completion on the calling thread: a step of it that
\* can be taken is taken.
FairGrowSpec ==
    GrowSpec /\ WF_vars(process_queued_too_small_grow \/ AfterPass)

TypeOK ==
    /\ built \in BOOLEAN
    /\ builder \in {"None", "Ok", "InvalidFont"}
    /\ pc \in {"idle", "process_queued", "pipeline_resize_texture",
               "inner_resize_texture", "unwrap", "draw", "panicked"}
    /\ built => /\ inner.texture_dimensions \in Dims
                /\ pipeline.texture \in Dims
                /\ pipeline.surface \in Surfaces
                /\ Len(inner.section_buffer) <= MaxPending

\* ------------------------------------------------------------------ claims
Atlas == inner.texture_dimensions
Texture == pipeline.texture
Cap == <<max_texture_dimension_2d, max_texture_dimension_2d>>
Resizing == pc \in {"pipeline_resize_texture", "inner_resize_texture"}
Returned == pc = "idle" /\ last_op[1] = "draw_queued"
Leq(a, b) == a[1] <= b[1] /\ a[2] <= b[2]

\* The computed (width, height) is what both resizes apply: the GPU texture
\* has it once pipeline.resize_texture ran, the atlas and the GPU texture
\* have it when the next pass starts.
ResizeApplied ==
    /\ pc = "inner_resize_texture" => Texture = width_height
    /\ (pc = "process_queued" /\ resizes > 0) =>
          (Atlas = width_height /\ Texture = width_height)

\* C1: whenever no draw_queued call is in progress (so after any draw_queued
\* call that returns, whatever the processing results were), the GlyphCache
\* atlas dimensions equal the RenderTarget GPU texture dimensions.
C1_DimensionAgreement ==
    (built /\ pc = "idle") => Atlas = Texture

\* A draw_queued call returned after at least two resize retries.
C1_Witness ==
    Returned /\ ret = "CommandBuffer" /\ resizes >= 2 /\ Atlas = Texture

\* C2: every draw_queued call that starts a processing pass eventually
\* leaves the loop and returns.
C2_Terminates ==
    (pc = "process_queued") ~> (pc = "idle")

\* C3: draw_queued never reports texture-too-small: a TextureTooSmall result
\* is only ever held while the resize and the next pass are ahead, the
\* statements after the loop see a successful result, the unwrap does not
\* panic, and what a returned draw_queued gave back is a command buffer.
C3_TooSmallAbsorbed ==
    /\ pc # "panicked"
    /\ brush_action.kind = "TextureTooSmall" =>
          (Resizing \/ (pc = "process_queued" /\ resizes > 0))
    /\ pc \in {"unwrap", "draw"} => brush_action.kind \in {"Draw", "ReDraw"}
    /\ Returned => ret = "CommandBuffer"

\* A draw_queued call got a TextureTooSmall result and still returned a
\* command buffer.
C3_Witness ==
    Returned /\ ret = "CommandBuffer" /\ passes = 2 /\ resizes = 1

\* The clamping case of a TextureTooSmall result, before the atlas is resized.
ClampCase ==
    /\ Resizing
    /\ (brush_action.suggested[1] > max_texture_dimension_2d
         \/ brush_action.suggested[2] > max_texture_dimension_2d)
    /\ (Atlas[1] < max_texture_dimension_2d
         \/ Atlas[2] < max_texture_dimension_2d)

\* C4: on a texture-too-small result whose suggested width or height exceeds
\* the device cap while the atlas is below the cap in some dimension, the
\* resize target is (cap, cap), for the GPU texture and for the atlas.
C4_Clamping ==
    /\ ClampCase => width_height = Cap
    /\ ResizeApplied

\* Only the suggested width exceeded the cap; the retry starts with atlas and
\* GPU texture at (cap, cap).
C4_Witness ==
    /\ pc = "process_queued" /\ resizes = 1
    /\ brush_action.kind = "TextureTooSmall"
    /\ brush_action.suggested = <<max_texture_dimension_2d + 1, 1>>
    /\ Atlas = Cap /\ Texture = Cap

\* The pass-through case of a TextureTooSmall result.
PassThroughCase ==
    /\ Resizing
    /\ brush_action.suggested[1] <= max_texture_dimension_2d
    /\ brush_action.suggested[2] <= max_texture_dimension_2d

\* C5: on a texture-too-small result where neither suggested dimension
\* exceeds the device cap, the resize target is the suggested size itself,
\* whatever the atlas dimensions are, for the GPU texture and for the atlas.
C5_PassThrough ==
    /\ PassThroughCase => width_height = brush_action.suggested
    /\ ResizeApplied

\* A suggestion of (cap, 1) was adopted as it is.
C5_Witness ==
    /\ pc = "process_queued" /\ resizes = 1
    /\ brush_action.kind = "TextureTooSmall"
    /\ brush_action.suggested = <<max_texture_dimension_2d, 1>>
    /\ Atlas = brush_action.suggested /\ Texture = brush_action.suggested

\* C6: no resize retry makes the atlas narrower or lower than it was.
C6_Monotonic ==
    [][pc = "inner_resize_texture" =>
          Leq(inner.texture_dimensions, inner'.texture_dimensions)]_vars

\* C7 as stated: a draw_queued call that directly follows another one (no
\* queue call in between) and resizes nothing does not replace the vertex
\* buffer.
C7_ConsecutiveNoUpload ==
    (Returned /\ consecutive /\ resizes = 0) => uploads = 0

\* C7, amended: a draw_queued call that resizes nothing and whose pending
\* sections are those the previous draw drew does not replace the vertex
\* buffer (the ReDraw path), and still returns the draw's command buffer.
C7_SameTextNoUpload ==
    /\ (pc = "draw" /\ resizes = 0 /\ inner.last_draw = prev_text) =>
          (brush_action.kind = "ReDraw" /\ uploads = 0)
    /\ (Returned /\ resizes = 0 /\ inner.last_draw = prev_text) =>
          (uploads = 0 /\ ret = "CommandBuffer")

\* Two draw_queued calls in a row, nothing queued before either: the second
\* returned without an upload.
C7_Witness ==
    /\ Returned /\ consecutive /\ resizes = 0
    /\ inner.last_draw = prev_text
    /\ uploads = 0 /\ ret = "CommandBuffer"

\* C8: a queue call appends the section to the pending list and changes
\* nothing else: not the atlas, not the GPU texture, the vertex buffer or the
\* surface; it draws nothing and has no error outcome.
C8_QueueOnlyPending ==
    [][last_op'[1] = "queue" =>
          /\ \E section \in Sections :
                inner'.section_buffer = Append(inner.section_buffer, section)
          /\ inner'.texture_dimensions = inner.texture_dimensions
          /\ inner'.last_draw = inner.last_draw
          /\ pipeline' = pipeline
          /\ pc' = "idle" /\ ret' = "None"
          /\ built' = built /\ builder' = builder]_vars

\* Two sections were queued on a brush that has drawn before.
C8_Witness ==
    /\ last_op[1] = "queue"
    /\ Len(inner.section_buffer) = 2
    /\ pipeline.vertices # <<>>

\* C9: a surface resize sets the surface dimensions and leaves the atlas, the
\* GPU texture, the pending list and the vertex buffer alone; no step of
\* draw_queued changes the surface dimensions.
C9_ResizeOrthogonal ==
    [][/\ last_op'[1] = "resize" =>
             /\ pipeline'.surface = last_op'[2]
             /\ pipeline'.texture = pipeline.texture
             /\ pipeline'.vertices = pipeline.vertices
             /\ inner' = inner
       /\ pc # "idle" => pipeline'.surface = pipeline.surface]_vars

\* The surface was resized after the atlas had been resized to another size.
C9_Witness ==
    /\ last_op = <<"resize", <<2, 1>>>>
    /\ pipeline.surface = <<2, 1>>
    /\ Texture = <<MaxDim, MaxDim>> /\ Atlas = Texture
    /\ pipeline.vertices # <<>>

\* C10: a builder constructor given bytes that fail to parse returns the
\* invalid-font error and no builder; the call creates no TextBrush and leaves
\* an existing one as it was; nothing can be built from the error.
C10_BuilderFailure ==
    /\ [](builder = "InvalidFont" => ~ENABLED build)
    /\ [][(/\ last_op'[1] \in {"using_font_bytes", "using_font_bytes_vec"}
           /\ last_op'[2] = "malformed") =>
             /\ builder' = "InvalidFont"
             /\ built' = built
             /\ inner' = inner
             /\ pipeline' = pipeline]_vars

\* Malformed bytes were rejected while a TextBrush that has drawn exists.
C10_Witness ==
    /\ builder = "InvalidFont"
    /\ last_op[1] \in {"using_font_bytes", "using_font_bytes_vec"}
    /\ last_op[2] = "malformed"
    /\ built /\ pipeline.vertices # <<>>

\* C11: right after build, for any configured initial cache size, the GPU
\* texture dimensions equal the atlas dimensions and the surface dimensions
\* are the (width, height) given to build.
C11_BuildEstablishes ==
    last_op[1] = "build" =>
       /\ built
       /\ Atlas \in Dims
       /\ Texture = Atlas
       /\ pipeline.surface = last_op[2]

\* A brush was just built with a non-square cache larger than the cap and a
\* non-square surface.
C11_Witness ==
    /\ last_op = <<"build", <<2, 1>>>>
    /\ Atlas = <<1, MaxDim>> /\ Texture = <<1, MaxDim>>
    /\ pipeline.surface = <<2, 1>>

\* Sections were pending when the pass of the current/last call succeeded.
DrewSections == Len(inner.last_draw) > 1

\* C12 as stated: a draw_queued call whose queued sections fit (its first
\* pass succeeds, nothing is resized) makes exactly one processing pass and
\* replaces the vertex buffer exactly once before it returns the draw.
C12_OnePassOneUpload ==
    (Returned /\ resizes = 0 /\ DrewSections) =>
       (passes = 1 /\ uploads = 1 /\ ret = "CommandBuffer")

\* C12, amended: such a call makes exactly one processing pass, resizes
\* nothing, and returns the draw; it replaces the vertex buffer exactly once
\* when the queued sections differ from those last drawn, and not at all when
\* they are the same.
C12_OnePassUploadIfChanged ==
    /\ (pc \in {"unwrap", "draw"} /\ resizes = 0) => passes = 1
    /\ (Returned /\ resizes = 0) =>
          /\ passes = 1
          /\ ret = "CommandBuffer"
          /\ uploads = IF inner.last_draw = prev_text THEN 0 ELSE 1
          /\ Atlas = Texture

\* The first draw of one queued section: one pass, no resize, one upload.
C12_Witness ==
    /\ Returned /\ resizes = 0 /\ passes = 1 /\ uploads = 1
    /\ prev_text = NoText
    /\ inner.last_draw = <<"text", "section">>
    /\ pipeline.vertices = <<to_vertex("section")>>
    /\ ret = "CommandBuffer"

\* C13: a draw_queued call whose first pass reports texture-too-small with a
\* suggestion within the cap and whose retried pass succeeds makes exactly
\* one resize-and-retry cycle (two passes) and ends with the atlas and the
\* GPU texture at the suggested size.
C13_OneResizeCycle ==
    /\ (pc = "process_queued" /\ resizes = 1
          /\ brush_action.suggested[1] <= max_texture_dimension_2d
          /\ brush_action.suggested[2] <= max_texture_dimension_2d) =>
          /\ passes = 1
          /\ width_height = brush_action.suggested
          /\ Atlas = brush_action.suggested
          /\ Texture = brush_action.suggested
    /\ (pc \in {"unwrap", "draw"} /\ resizes = 1) =>
          /\ passes = 2
          /\ Atlas = width_height
          /\ Texture = width_height
    /\ (Returned /\ resizes = 1) =>
          (passes = 2 /\ Atlas = Texture /\ ret = "CommandBuffer")

\* After one retry to a suggested (cap, 1) the second pass succeeded with a
\* new vertex batch; only the draw is left.
C13_Witness ==
    /\ pc = "draw" /\ resizes = 1 /\ passes = 2
    /\ width_height = <<max_texture_dimension_2d, 1>>
    /\ Atlas = width_height /\ Texture = width_height
    /\ brush_action.kind = "Draw" /\ uploads = 1

\* C14: on a texture-too-small result with the atlas already at the cap in
\* both dimensions and a suggestion that still exceeds the cap, the retry
\* resizes to (cap, cap) again.
C14_ExhaustedClamp ==
    (/\ Resizing
     /\ Atlas = Cap
     /\ (brush_action.suggested[1] > max_texture_dimension_2d
          \/ brush_action.suggested[2] > max_texture_dimension_2d)) =>
       width_height = Cap

\* C15: no step of a resize retry takes the atlas or the GPU texture from
\* within the device cap to a width or height above it.
C15_HardwareCeiling ==
    [][(pc # "idle" /\ Leq(Atlas, Cap) /\ Leq(Texture, Cap)) =>
          (Leq(inner'.texture_dimensions, Cap)
             /\ Leq(pipeline'.texture, Cap))]_vars

\* C16: inside one draw_queued call the vertex buffer is not touched while
\* the loop runs (not during, not after a failed pass); after the loop it is
\* replaced, once and in full, by the final pass's vertices if and only if
\* that pass reported Draw; the draw is issued by the last statement only,
\* after every resize and after the replacement, once per call.
C16_UploadThenDraw ==
    /\ [](/\ pc \in {"process_queued", "pipeline_resize_texture",
                     "inner_resize_texture", "unwrap"} => uploads = 0
          /\ pc = "draw" =>
                /\ uploads = IF brush_action.kind = "Draw" THEN 1 ELSE 0
                /\ brush_action.kind = "Draw" =>
                      pipeline.vertices = brush_action.vertices
          /\ pc # "idle" => ret = "None"
          /\ Returned => (ret = "CommandBuffer" /\ uploads <= 1))
    /\ [][/\ (pc # "idle" /\ pipeline'.vertices # pipeline.vertices) =>
                /\ pc = "unwrap" /\ pc' = "draw"
                /\ brush_action.kind = "Draw"
                /\ pipeline'.vertices = brush_action.vertices
          /\ (pc # "idle" /\ pc # "unwrap") => uploads' = uploads
          /\ ret' # ret =>
                \/ (pc = "draw" /\ pc' = "idle" /\ ret' = "CommandBuffer"
                      /\ pipeline' = pipeline /\ inner' = inner)
                \/ (pc = "idle" /\ ret' = "None")]_vars

\* After two resize retries the final pass reported Draw and its two
\* vertices were uploaded; the draw is the statement left.
C16_Witness ==
    /\ pc = "draw" /\ resizes = 2 /\ uploads = 1
    /\ brush_action.kind = "Draw"
    /\ Len(brush_action.vertices) = 2
    /\ pipeline.vertices = brush_action.vertices

\* C17: with warning-level logging enabled a draw_queued call has logged one
\* warning per texture-too-small result, each before that retry's resize
\* (so none when the first pass succeeds), and the call still goes on to
\* return; with it disabled nothing is logged.
C17_OneWarningPerRetry ==
    /\ (pc # "idle" \/ Returned) =>
          warnings = IF ~log_enabled THEN 0
                     ELSE IF Resizing THEN Bump(resizes)
                     ELSE resizes
    /\ pc # "panicked"
    /\ (Returned /\ warnings > 0) => ret = "CommandBuffer"

\* The second texture-too-small result of a call was just logged; its resize
\* has not begun.
C17_Witness ==
    /\ pc = "pipeline_resize_texture"
    /\ log_enabled /\ warnings = 2 /\ resizes = 1 /\ passes = 2
    /\ Texture = Atlas

\* C18: whenever a processing pass is about to start (the first pass and
\* every retry) the GPU texture and the atlas have the same dimensions; after
\* a failed pass the GPU texture is resized to the target first, and the very
\* next step resizes the atlas to that same target, with no processing pass,
\* upload or draw between the two resizes.
C18_PassStartsAligned ==
    /\ [](pc = "process_queued" => Texture = Atlas)
    /\ [](pc = "inner_resize_texture" => Texture = width_height)
    /\ [][pc = "pipeline_resize_texture" =>
            /\ pc' = "inner_resize_texture"
            /\ pipeline'.texture = width_height
            /\ UNCHANGED <<inner, counters, ret>>]_vars
    /\ [][pc = "inner_resize_texture" =>
            /\ pc' = "process_queued"
            /\ inner'.texture_dimensions = width_height
            /\ UNCHANGED <<pipeline, passes, uploads, ret>>]_vars

\* A retry pass is about to start after a resize that clamped the suggestion.
C18_Witness ==
    /\ pc = "process_queued"
    /\ resizes = 1 /\ passes = 1
    /\ brush_action.kind = "TextureTooSmall"
    /\ brush_action.suggested # width_height
    /\ Texture = width_height /\ Atlas = width_height

\* C19: inside a draw_queued call the pending sections are changed by the
\* successful processing pass only, which clears them: a failed pass and both
\* resizes leave them as they were, and they are empty from the successful
\* pass on, in particular when the call has returned.
C19_PendingKept ==
    /\ [][pc # "idle" =>
            IF pc = "process_queued" /\ pc' = "unwrap"
            THEN inner'.section_buffer = <<>>
            ELSE inner'.section_buffer = inner.section_buffer]_vars
    /\ []((pc \in {"unwrap", "draw"} \/ Returned) =>
            inner.section_buffer = <<>>)

\* A retry pass is about to start with both queued sections still pending.
C19_Witness ==
    /\ pc = "process_queued"
    /\ resizes = 2
    /\ Len(inner.section_buffer) = MaxPending
====
